---- MODULE Spec2Model ----
(***************************************************************************)
(* Model of jlink.py: the JLink controller that drives the JLinkExe tool   *)
(* through script files, a subprocess and a threading.Timer watchdog.      *)
(*                                                                         *)
(* Two threads are modelled: the calling (main) thread, whose position in  *)
(* run_commands / run_script / the public operations is pc, and the        *)
(* watchdog thread of threading.Timer, whose position is timer.  The tool  *)
(* process and the wall clock are the environment.                         *)
(*                                                                         *)
(* Text is modelled as sequences: a str is a sequence of one-character     *)
(* strings, a bytes value a sequence of byte values.  The long marker      *)
(* strings of the source are abbreviated to two characters each; the two   *)
(* markers that share the prefix "J-Link: Flash download: " share their    *)
(* first character.                                                        *)
(***************************************************************************)
EXTENDS Integers, Sequences, FiniteSets, TLC

VARIABLES
    cfg,        \* self._connected, self._jlink_path, self._jlink_params
    ctor,       \* the construction: host system, jlink_exe argument, validation process
    defaults,   \* the default argument lists of program (hex_files=[], bin_files=[])
    args,       \* the hex_files and bin_files of the program call
    count,      \* per call: files created, Popen calls, p.kill() calls
    pc,         \* position of the main thread
    op,         \* the public operation in progress (or the last one)
    timeout,    \* run_script's timeout argument
    commands,   \* run_commands' commands argument
    tmp,        \* the NamedTemporaryFile of run_commands
    proc,       \* the tool process of run_script
    exitedAt,   \* value of elapsed when the tool process exited by itself, or -1
    output,     \* run_script's local variable output
    timer,      \* position of the watchdog thread (threading.Timer)
    finished,   \* Timer.finished, the event timer.cancel() sets
    elapsed,    \* wall-clock time since timer.start()
    threadExc,  \* exception that ended the watchdog thread
    result      \* what the caller of the public operation received

vars == <<cfg, ctor, defaults, args, count, pc, op, timeout, commands, tmp, proc, exitedAt, output,
          timer, finished, elapsed, threadExc, result>>

-----------------------------------------------------------------------------
(* Bounds of the model *)

\* longest tool output, in chunks of Chunks
MaxChunks == 3
\* largest timeout a caller passes to run_script / run_commands directly
MaxTimeout == 1

-----------------------------------------------------------------------------
(* Program constants *)

\* timeout=None (line 83 tests "timeout is not None"); timeouts are seconds > 0
NoTimeout == -1
\* def run_script(self, filename, timeout=60) / run_commands(..., timeout=60)
DefaultTimeout == 60
\* self.run_commands(["connect", "q"], timeout=5)
ConnectTimeout == 5

-----------------------------------------------------------------------------
(* Text *)

\* code points of the characters used, as str.encode() maps them to bytes
Ord == [c \in {"W", "F", "J", "S", "T", "O", "K", "C", "M"} |->
          CASE c = "W" -> 87 [] c = "F" -> 70 [] c = "J" -> 74
            [] c = "S" -> 83 [] c = "T" -> 84 [] c = "O" -> 79
            [] c = "K" -> 75 [] c = "C" -> 67 [] c = "M" -> 77]

\* str.encode(): the bytes of a str
Encode(s) == [i \in 1..Len(s) |-> Ord[s[i]]]

\* needle in hay (bytes.__contains__): needle occurs at some offset of hay
Contains(needle, hay) ==
    \E i \in 0..(Len(hay) - Len(needle)) :
        SubSeq(hay, i + 1, i + Len(needle)) = needle

\* "Writing target memory failed."
write_failed == Encode(<<"W", "F">>)
\* "J-Link: Flash download: Flash download skipped. Flash contents already match"
flash_match == Encode(<<"J", "S">>)
\* ["J-Link: Flash download: Total time needed:", "O.K."]
pass_messages == <<(<<"J", "T">>), (<<"O", "K">>)>>

-----------------------------------------------------------------------------
(* Values *)

\* the connected markers a controller is constructed with
Markers == {<<"C", "M">>}

\* what the tool may print between two reads: a marker, or a piece of one
Chunks == {write_failed, flash_match, Encode(pass_messages[1]),
           Encode(pass_messages[2]), Encode(<<"C">>), Encode(<<"M">>)}

RECURSIVE Flatten(_)
Flatten(ss) == IF ss = <<>> THEN <<>> ELSE Head(ss) \o Flatten(Tail(ss))

\* the merged stdout/stderr streams the tool can produce
Outputs == UNION {{Flatten(cs) : cs \in [1..n -> Chunks]} : n \in 0..MaxChunks}

\* a path is a sequence of components; an absolute path starts with "/"
Cwd == <<"/", "cwd">>
HexFileLists == {<<>>, <<(<<"a.hex">>)>>}
\* an address is a Python int, kept as two 16-bit halves: hi * 2^16 + lo
\* (0x08000000 has hi = 0x0800)
BinFileLists == {<<>>, <<[file |-> <<"/", "b.bin">>, addr |-> [hi |-> 2048, lo |-> 0]]>>}
ScriptNames == {<<"/", "s.jlink">>}
CommandLists == {<<(<<"q">>)>>}
Timeouts == {NoTimeout} \cup 1..MaxTimeout

\* the names bound at module level of jlink.py: the imports, logger and JLink
ModuleNames == {"logging", "os", "platform", "re", "sys", "subprocess",
                "threading", "time", "tempfile", "logger", "JLink"}

\* the exception a "raise JLinkError(...)" statement ends with: evaluating the
\* name JLinkError comes first
RaiseJLinkError ==
    IF "JLinkError" \in ModuleNames THEN "JLinkError" ELSE "NameError"

Unassigned == [assigned |-> FALSE, data |-> <<>>]
Assigned(o) == [assigned |-> TRUE, data |-> o]

NoResult == [kind |-> "none", exc |-> "", bytes |-> <<>>, int |-> 0, bool |-> FALSE]
Raised(e) == [NoResult EXCEPT !.kind = "raise", !.exc = e]
ReturnedNone == [NoResult EXCEPT !.kind = "return"]
ReturnedBytes(o) == [NoResult EXCEPT !.kind = "return", !.bytes = o]
ReturnedInt(n) == [NoResult EXCEPT !.kind = "return", !.int = n]
ReturnedBool(b) == [NoResult EXCEPT !.kind = "return", !.bool = b]

NoFile == [state |-> "none", content |-> <<>>]

\* nothing counted yet in this call
NoCount == [files |-> 0, popen |-> 0, kills |-> 0]

\* the argument lists of a call that is not a program call
NoArgs == [hex_files |-> <<>>, bin_files |-> <<>>]

\* the objects created by "hex_files=[], bin_files=[]" when program is defined
EmptyDefaults == [hex_files |-> <<>>, bin_files |-> <<>>]

\* a constructed controller on Linux, jlink_exe=None (written <<>>), whose
\* validation process has exited
Constructed == [system |-> "Linux", jlink_exe |-> <<>>, valproc |-> "exited"]

-----------------------------------------------------------------------------
(* Pure parts of the public operations *)

\* os.path.abspath(f)
AbsPath(f) == IF f # <<>> /\ f[1] = "/" THEN f ELSE Cwd \o f

HexDigits == <<"0", "1", "2", "3", "4", "5", "6", "7",
               "8", "9", "A", "B", "C", "D", "E", "F">>

\* "{:X}".format(n)
RECURSIVE HexUpper(_)
HexUpper(n) ==
    IF n < 16 THEN <<HexDigits[n + 1]>>
    ELSE Append(HexUpper(n \div 16), HexDigits[(n % 16) + 1])

\* digits d zero-padded on the left to a width of at least w
ZeroPad(d, w) == [i \in 1..(IF Len(d) < w THEN w - Len(d) ELSE 0) |-> "0"] \o d

\* "{:X}".format(a) for an int a given by its halves
HexUpperInt(a) ==
    IF a.hi = 0 THEN HexUpper(a.lo)
    ELSE HexUpper(a.hi) \o ZeroPad(HexUpper(a.lo), 4)

\* variant of Hex08X: the format spec is X, without the width 08
HexUnpadded(a) == HexUpperInt(a)

\* "{:08X}".format(a): zero-padded to a width of at least 8
Hex08X(a) == ZeroPad(HexUpperInt(a), 8)

\* program: the command list built from hex_files and bin_files
ProgramCommands(hex_files, bin_files) ==
    <<(<<"r">>)>>
    \o [i \in 1..Len(hex_files) |-> <<"loadfile", AbsPath(hex_files[i])>>]
    \o [i \in 1..Len(bin_files) |->
           <<"loadbin", AbsPath(bin_files[i].file),
             <<"0", "x">> \o Hex08X(bin_files[i].addr)>>]
    \o <<(<<"r">>), (<<"g">>), (<<"q">>)>>

\* "\n".join(commands): the lines with a newline between two of them
RECURSIVE JoinLines(_)
JoinLines(cs) ==
    IF cs = <<>> THEN <<>>
    ELSE IF Len(cs) = 1 THEN <<cs[1]>>
    ELSE <<cs[1], <<"\n">> >> \o JoinLines(Tail(cs))

\* variant of IsConnectedResult: output.startswith(self._connected.encode())
IsConnectedStartsWith(connected, out) ==
    /\ Len(Encode(connected)) <= Len(out)
    /\ SubSeq(out, 1, Len(Encode(connected))) = Encode(connected)

\* is_connected: self._connected.encode() in output
IsConnectedResult(connected, out) == Contains(Encode(connected), out)

\* all(message.encode() in output for message in pass_messages)
AllPassMessages(out) ==
    \A i \in 1..Len(pass_messages) : Contains(Encode(pass_messages[i]), out)

\* variant of ProgramResult: the already-programmed check comes first
ProgramResultMatchFirst(out) ==
    IF Contains(flash_match, out) THEN 0
    ELSE IF Contains(write_failed, out) THEN -1
    ELSE IF AllPassMessages(out) THEN 0
    ELSE -1

\* variant of ProgramResult: any() instead of all() over pass_messages
ProgramResultAnyPass(out) ==
    IF Contains(write_failed, out) THEN -1
    ELSE IF Contains(flash_match, out) THEN 0
    ELSE IF \E i \in 1..Len(pass_messages) : Contains(Encode(pass_messages[i]), out)
    THEN 0
    ELSE -1

\* program: the if / elif chain on output
ProgramResult(out) ==
    IF Contains(write_failed, out) THEN -1
    ELSE IF Contains(flash_match, out) THEN 0
    ELSE IF AllPassMessages(out) THEN 0
    ELSE -1

\* run_script's except clause: logger.debug formats output, then raise JLinkError
ExceptClause(out) ==
    IF ~out.assigned THEN "UnboundLocalError" ELSE RaiseJLinkError

-----------------------------------------------------------------------------
(* The state after construction: a controller exists, no call in progress *)

Init ==
    /\ cfg \in [connected : Markers,
                jlink_path : {<<"JLinkExe">>},
                jlink_params : {<<"-device", "LPC1343", "-if", "swd", "-speed",
                                  "1000">>}]
    /\ ctor = Constructed
    /\ defaults = EmptyDefaults
    /\ args = NoArgs
    /\ count = NoCount
    /\ pc = "idle"
    /\ op = "none"
    /\ timeout = NoTimeout
    /\ commands = <<>>
    /\ tmp = NoFile
    /\ proc = "none"
    /\ exitedAt = -1
    /\ output = Unassigned
    /\ timer = "none"
    /\ finished = FALSE
    /\ elapsed = 0
    /\ threadExc = ""
    /\ result = NoResult

\* a public method is entered: the locals of the call are fresh
Enter(name, t, cmds, first) ==
    /\ op' = name
    /\ timeout' = t
    /\ commands' = cmds
    /\ pc' = first
    /\ tmp' = NoFile
    /\ proc' = "none"
    /\ exitedAt' = -1
    /\ output' = Unassigned
    /\ timer' = "none"
    /\ finished' = FALSE
    /\ elapsed' = 0
    /\ threadExc' = ""
    /\ result' = NoResult
    /\ count' = NoCount
    /\ UNCHANGED <<cfg, ctor>>

\* the user calls when no call is in progress, and waits for the watchdog
\* thread of the previous call to end
CanCall == pc = "idle" /\ timer \in {"none", "dead"}

-----------------------------------------------------------------------------
(* Public operations, up to their call of run_commands / run_script *)

\* is_connected: self.run_commands(["connect", "q"], timeout=5)
Call_is_connected ==
    /\ CanCall
    /\ Enter("is_connected", ConnectTimeout,
             <<(<<"connect">>), (<<"q">>)>>, "rc_tempfile")
    /\ args' = NoArgs
    /\ UNCHANGED defaults

\* erase: self.run_commands(["r", "erase", "r", "q"])
Call_erase ==
    /\ CanCall
    /\ Enter("erase", DefaultTimeout,
             <<(<<"r">>), (<<"erase">>), (<<"r">>), (<<"q">>)>>, "rc_tempfile")
    /\ args' = NoArgs
    /\ UNCHANGED defaults

\* variant of DefaultsAfterProgram: the commands are appended to hex_files
DefaultsAppendedTo(d, hex_omitted, bin_omitted) ==
    IF hex_omitted /\ d.hex_files = <<>>
    THEN [d EXCEPT !.hex_files = <<(<<"r">>)>>]
    ELSE d

\* program only reads hex_files and bin_files (the two for loops) and builds
\* commands as a new list: the default lists stay as they were created
DefaultsAfterProgram(d, hex_omitted, bin_omitted) == d

\* program(hex_files, bin_files), each list given by the caller (from hs, bs)
\* or omitted: build the command list, self.run_commands(commands)
Call_programFrom(hs, bs) ==
    /\ CanCall
    /\ \E hex_omitted \in BOOLEAN, bin_omitted \in BOOLEAN, h \in hs, b \in bs :
          LET hex_files == IF hex_omitted THEN defaults.hex_files ELSE h
              bin_files == IF bin_omitted THEN defaults.bin_files ELSE b
          IN  /\ Enter("program", DefaultTimeout,
                       ProgramCommands(hex_files, bin_files), "rc_tempfile")
              /\ args' = [hex_files |-> hex_files, bin_files |-> bin_files]
              /\ defaults' = DefaultsAfterProgram(defaults, hex_omitted, bin_omitted)

Call_program == Call_programFrom(HexFileLists, BinFileLists)

\* run_commands called by the user of the class
Call_run_commands ==
    /\ CanCall
    /\ \E c \in CommandLists, t \in Timeouts :
          Enter("run_commands", t, c, "rc_tempfile")
    /\ args' = NoArgs
    /\ UNCHANGED defaults

\* run_script called by the user of the class
Call_run_script ==
    /\ CanCall
    /\ \E f \in ScriptNames, t \in Timeouts :
          Enter("run_script", t, <<>>, "rs_popen")
    /\ args' = NoArgs
    /\ UNCHANGED defaults

-----------------------------------------------------------------------------
(* run_commands *)

\* tempfile.NamedTemporaryFile(mode="w", delete=False)
TempFileCreate ==
    /\ pc = "rc_tempfile"
    /\ tmp' = [state |-> "open", content |-> <<>>]
    /\ count' = [count EXCEPT !.files = @ + 1]
    /\ pc' = "rc_write"
    /\ UNCHANGED <<cfg, ctor, defaults, args,
                   op, timeout, commands, proc, exitedAt, output,
                   timer, finished, elapsed, threadExc, result>>

\* commands = "\n".join(commands); temp_file.write(commands)
TempFileWrite ==
    /\ pc = "rc_write"
    /\ tmp' = [tmp EXCEPT !.content = JoinLines(commands)]
    /\ pc' = "rc_close"
    /\ UNCHANGED <<cfg, ctor, defaults, args, count,
                   op, timeout, commands, proc, exitedAt, output,
                   timer, finished, elapsed, threadExc, result>>

\* variant of TempFileClose: run_script is called with the file still open
TempFileLeftOpen ==
    /\ pc = "rc_close"
    /\ tmp' = tmp
    /\ pc' = "rs_popen"
    /\ UNCHANGED <<cfg, ctor, defaults, args, count,
                   op, timeout, commands, proc, exitedAt, output,
                   timer, finished, elapsed, threadExc, result>>

\* temp_file.close(); return self.run_script(temp_file.name, timeout)
TempFileClose ==
    /\ pc = "rc_close"
    /\ tmp' = [tmp EXCEPT !.state = "closed"]
    /\ pc' = "rs_popen"
    /\ UNCHANGED <<cfg, ctor, defaults, args, count,
                   op, timeout, commands, proc, exitedAt, output,
                   timer, finished, elapsed, threadExc, result>>

-----------------------------------------------------------------------------
(* run_script, main thread *)

\* variant of TimerWanted: the test on timeout is missing
TimerAlways(t) == TRUE

\* "if timeout is not None": a watchdog belongs to the call
TimerWanted(t) == t # NoTimeout

\* variant of CommunicateReady: one read of the pipe instead of communicate()
CommunicateReadyEarly(p) == p \in {"running", "exited", "killed"}

\* process.communicate() returns once the process has ended and the pipe is at
\* end of file
CommunicateReady(p) == p \in {"exited", "killed"}

\* process = subprocess.Popen(args, stdout=PIPE, stderr=STDOUT) succeeds
PopenOk ==
    /\ pc = "rs_popen"
    /\ proc' = "running"
    /\ count' = [count EXCEPT !.popen = @ + 1]
    /\ pc' = "rs_timer"
    /\ UNCHANGED <<cfg, ctor, defaults, args,
                   op, timeout, commands, tmp, exitedAt, output,
                   timer, finished, elapsed, threadExc, result>>

\* variant of PopenFail: a failed Popen is tried a second time
PopenFailRetried ==
    /\ pc = "rs_popen"
    /\ count' = [count EXCEPT !.popen = @ + 1]
    /\ pc' = IF count.popen = 0 THEN "rs_popen" ELSE "rs_except"
    /\ UNCHANGED <<cfg, ctor, defaults, args,
                   op, timeout, commands, tmp, proc, exitedAt, output,
                   timer, finished, elapsed, threadExc, result>>

\* subprocess.Popen raises (OSError): control passes to the except clause
PopenFail ==
    /\ pc = "rs_popen"
    /\ count' = [count EXCEPT !.popen = @ + 1]
    /\ pc' = "rs_except"
    /\ UNCHANGED <<cfg, ctor, defaults, args,
                   op, timeout, commands, tmp, proc, exitedAt, output,
                   timer, finished, elapsed, threadExc, result>>

\* if timeout is not None: timer = threading.Timer(...); timer.start()
TimerStart ==
    /\ pc = "rs_timer"
    /\ timer' = IF TimerWanted(timeout) THEN "waiting" ELSE timer
    /\ pc' = "rs_communicate"
    /\ UNCHANGED <<cfg, ctor, defaults, args, count,
                   op, timeout, commands, tmp, proc, exitedAt, output,
                   finished, elapsed, threadExc, result>>

\* output, err = process.communicate() returns what the tool printed, one of outs
CommunicateReturnFrom(outs) ==
    /\ pc = "rs_communicate"
    /\ CommunicateReady(proc)
    /\ \E o \in outs : output' = Assigned(o)
    /\ pc' = "rs_cancel"
    /\ UNCHANGED <<cfg, ctor, defaults, args, count,
                   op, timeout, commands, tmp, proc, exitedAt,
                   timer, finished, elapsed, threadExc, result>>

CommunicateReturn == CommunicateReturnFrom(Outputs)

\* process.communicate() raises: control passes to the except clause
CommunicateFail ==
    /\ pc = "rs_communicate"
    /\ pc' = "rs_except"
    /\ UNCHANGED <<cfg, ctor, defaults, args, count,
                   op, timeout, commands, tmp, proc, exitedAt, output,
                   timer, finished, elapsed, threadExc, result>>

\* if timeout is not None: timer.cancel()
TimerCancel ==
    /\ pc = "rs_cancel"
    /\ finished' = IF TimerWanted(timeout) THEN TRUE ELSE finished
    /\ pc' = "rs_return"
    /\ UNCHANGED <<cfg, ctor, defaults, args, count,
                   op, timeout, commands, tmp, proc, exitedAt, output,
                   timer, elapsed, threadExc, result>>

\* return output, through run_commands, to the public operation or the user
ReturnOutput ==
    /\ pc = "rs_return"
    /\ pc' = CASE op = "is_connected" -> "ic_classify"
               [] op = "program" -> "pg_classify"
               [] op = "erase" -> "er_return"
               [] OTHER -> "idle"
    /\ result' = IF op \in {"run_script", "run_commands"}
                 THEN ReturnedBytes(output.data) ELSE result
    /\ UNCHANGED <<cfg, ctor, defaults, args, count,
                   op, timeout, commands, tmp, proc, exitedAt, output,
                   timer, finished, elapsed, threadExc>>

\* except: logger.debug(... output ...); raise JLinkError(...).  No caller up
\* to the public operation catches the exception.
ExceptHandler ==
    /\ pc = "rs_except"
    /\ result' = Raised(ExceptClause(output))
    /\ pc' = "idle"
    /\ UNCHANGED <<cfg, ctor, defaults, args, count,
                   op, timeout, commands, tmp, proc, exitedAt, output,
                   timer, finished, elapsed, threadExc>>

-----------------------------------------------------------------------------
(* The public operations, after run_commands returned *)

\* is_connected: return self._connected.encode() in output
Classify_is_connected ==
    /\ pc = "ic_classify"
    /\ result' = ReturnedBool(IsConnectedResult(cfg.connected, output.data))
    /\ pc' = "idle"
    /\ UNCHANGED <<cfg, ctor, defaults, args, count,
                   op, timeout, commands, tmp, proc, exitedAt, output,
                   timer, finished, elapsed, threadExc>>

\* variant of Classify_program: a failed programming is raised, not returned
Classify_program_Raising ==
    /\ pc = "pg_classify"
    /\ result' = IF ProgramResult(output.data) = -1
                 THEN Raised(RaiseJLinkError)
                 ELSE ReturnedInt(ProgramResult(output.data))
    /\ pc' = "idle"
    /\ UNCHANGED <<cfg, ctor, defaults, args, count,
                   op, timeout, commands, tmp, proc, exitedAt, output,
                   timer, finished, elapsed, threadExc>>

\* program: the marker checks and return -1 / return 0
Classify_program ==
    /\ pc = "pg_classify"
    /\ result' = ReturnedInt(ProgramResult(output.data))
    /\ pc' = "idle"
    /\ UNCHANGED <<cfg, ctor, defaults, args, count,
                   op, timeout, commands, tmp, proc, exitedAt, output,
                   timer, finished, elapsed, threadExc>>

\* variant of Return_erase: return self.run_commands(commands)
Return_erase_Output ==
    /\ pc = "er_return"
    /\ result' = ReturnedBytes(output.data)
    /\ pc' = "idle"
    /\ UNCHANGED <<cfg, ctor, defaults, args, count,
                   op, timeout, commands, tmp, proc, exitedAt, output,
                   timer, finished, elapsed, threadExc>>

\* erase: the value of run_commands is dropped, the method returns None
Return_erase ==
    /\ pc = "er_return"
    /\ result' = ReturnedNone
    /\ pc' = "idle"
    /\ UNCHANGED <<cfg, ctor, defaults, args, count,
                   op, timeout, commands, tmp, proc, exitedAt, output,
                   timer, finished, elapsed, threadExc>>

-----------------------------------------------------------------------------
(* The watchdog thread: threading.Timer.run and timeout_exceeded *)

\* variant of Kill: the signal is not sent
KillNotSent(p) == p

\* p.kill(): SIGKILL to a process that has not ended; nothing otherwise
Kill(p) == IF p = "running" THEN "killed" ELSE p

\* variant of IntervalPassed: the wait does not last the interval
IntervalIgnored(e, t) == TRUE

\* finished.wait(interval) times out when interval seconds have passed
IntervalPassed(e, t) == e >= t

\* Timer.run: finished.wait(interval) timed out and finished is not set
WatchdogExpire ==
    /\ timer = "waiting"
    /\ IntervalPassed(elapsed, timeout)
    /\ ~finished
    /\ timer' = "fn"
    /\ UNCHANGED <<cfg, ctor, defaults, args, count,
                   pc, op, timeout, commands, tmp, proc, exitedAt,
                   output, finished, elapsed, threadExc, result>>

\* Timer.run: finished was set by cancel(), the function is not called
WatchdogCancelled ==
    /\ timer = "waiting"
    /\ finished
    /\ timer' = "dead"
    /\ UNCHANGED <<cfg, ctor, defaults, args, count,
                   pc, op, timeout, commands, tmp, proc, exitedAt,
                   output, finished, elapsed, threadExc, result>>

\* timeout_exceeded: p.kill()
WatchdogKill ==
    /\ timer = "fn"
    /\ proc' = Kill(proc)
    /\ count' = [count EXCEPT !.kills = @ + 1]
    /\ timer' = "raise"
    /\ UNCHANGED <<cfg, ctor, defaults, args,
                   pc, op, timeout, commands, tmp, exitedAt,
                   output, finished, elapsed, threadExc, result>>

\* timeout_exceeded: raise JLinkError(...), in the watchdog thread, which ends
WatchdogRaise ==
    /\ timer = "raise"
    /\ threadExc' = RaiseJLinkError
    /\ timer' = "dead"
    /\ UNCHANGED <<cfg, ctor, defaults, args, count,
                   pc, op, timeout, commands, tmp, proc, exitedAt,
                   output, finished, elapsed, result>>

-----------------------------------------------------------------------------
(* The environment: the tool process and the clock *)

\* the tool process exits by itself (it may also never do so)
ProcExit ==
    /\ proc = "running"
    /\ proc' = "exited"
    /\ exitedAt' = elapsed
    /\ UNCHANGED <<cfg, ctor, defaults, args, count,
                   pc, op, timeout, commands, tmp, output,
                   timer, finished, elapsed, threadExc, result>>

\* time passes while the watchdog waits; the clock is looked at one second
\* after timer.start() and when the interval has passed
Tick ==
    /\ timer = "waiting"
    /\ elapsed < timeout
    /\ elapsed' \in {e \in {1, timeout} : e > elapsed}
    /\ UNCHANGED <<cfg, ctor, defaults, args, count,
                   pc, op, timeout, commands, tmp, proc, exitedAt,
                   output, timer, finished, threadExc, result>>

-----------------------------------------------------------------------------

\* the steps of the calling thread inside a call, the tool printing one of outs
MainStep(outs) ==
    \/ TempFileCreate \/ TempFileWrite \/ TempFileClose
    \/ PopenOk \/ PopenFail \/ TimerStart \/ CommunicateReturnFrom(outs)
    \/ TimerCancel \/ ReturnOutput \/ ExceptHandler
    \/ Classify_is_connected \/ Classify_program \/ Return_erase

WatchdogStep ==
    WatchdogExpire \/ WatchdogCancelled \/ WatchdogKill \/ WatchdogRaise

Next ==
    \/ Call_is_connected \/ Call_erase \/ Call_program
    \/ Call_run_commands \/ Call_run_script
    \/ TempFileCreate \/ TempFileWrite \/ TempFileClose
    \/ PopenOk \/ PopenFail \/ TimerStart
    \/ CommunicateReturn \/ CommunicateFail
    \/ TimerCancel \/ ReturnOutput \/ ExceptHandler
    \/ Classify_is_connected \/ Classify_program \/ Return_erase
    \/ WatchdogExpire \/ WatchdogCancelled \/ WatchdogKill \/ WatchdogRaise
    \/ ProcExit \/ Tick

Spec == Init /\ [][Next]_vars

\* Termination does not depend on what the tool prints: the behaviours checked
\* for it take the output from the streams of at most one chunk.
ShortOutputs == {<<>>} \cup Chunks

\* The script does not depend on what the tool prints either: the behaviours
\* checked for it take more argument lists for program and the short outputs.
\* The addresses are 0, 0xABCD, 0x08000000, 2^32 - 1 and 2^32.
WideHexFileLists ==
    {<<>>, <<(<<"a.hex">>)>>, <<(<<"a.hex">>), (<<"/", "fw", "b.hex">>)>>}
WideBinFileLists ==
    {<<>>,
     <<[file |-> <<"/", "b.bin">>, addr |-> [hi |-> 2048, lo |-> 0]]>>,
     <<[file |-> <<"c.bin">>, addr |-> [hi |-> 65535, lo |-> 65535]],
       [file |-> <<"/", "b.bin">>, addr |-> [hi |-> 0, lo |-> 0]]>>,
     <<[file |-> <<"c.bin">>, addr |-> [hi |-> 0, lo |-> 43981]]>>,
     <<[file |-> <<"c.bin">>, addr |-> [hi |-> 65536, lo |-> 0]]>>}

NextScript ==
    \/ Call_is_connected \/ Call_erase
    \/ Call_programFrom(WideHexFileLists, WideBinFileLists)
    \/ Call_run_commands \/ Call_run_script
    \/ MainStep(ShortOutputs) \/ CommunicateFail
    \/ WatchdogStep
    \/ ProcExit \/ Tick

ScriptSpec == Init /\ [][NextScript]_vars

-----------------------------------------------------------------------------
(* Construction: JLink.__init__ and _test_jlinkexe *)

\* what platform.system() may return, and the jlink_exe arguments (<<>> is None)
Systems == {"Linux", "Windows", "Darwin"}
ExeArguments == {<<>>, <<"MyJLink">>}

\* the device, interface and speed parameters, split at white space
ToolParams == <<"-device", "LPC1343", "-if", "swd", "-speed", "1000">>

\* lines 39-46: the executable name, or <<>> when the system is not supported
ExeName(jlink_exe, system) ==
    IF jlink_exe # <<>> THEN jlink_exe
    ELSE IF system = "Linux" THEN <<"JLinkExe">>
    ELSE IF system = "Windows" THEN <<"JLink.exe">>
    ELSE <<>>

\* before __init__: no attribute is set, no process was started
CtorInit ==
    /\ cfg = [connected |-> <<>>, jlink_path |-> <<>>, jlink_params |-> <<>>]
    /\ ctor \in [system : Systems, jlink_exe : ExeArguments, valproc : {"none"}]
    /\ defaults = EmptyDefaults
    /\ args = NoArgs
    /\ count = NoCount
    /\ pc = "ctor_config"
    /\ op = "none"
    /\ timeout = NoTimeout
    /\ commands = <<>>
    /\ tmp = NoFile
    /\ proc = "none"
    /\ exitedAt = -1
    /\ output = Unassigned
    /\ timer = "none"
    /\ finished = FALSE
    /\ elapsed = 0
    /\ threadExc = ""
    /\ result = NoResult

\* __init__ up to the call of _test_jlinkexe: self._connected, the executable
\* name (or raise JLinkError("Unsupported system ...")), the path, the parameters
Ctor_Configure ==
    /\ pc = "ctor_config"
    /\ \E connected \in Markers :
          LET exe == ExeName(ctor.jlink_exe, ctor.system)
          IN  IF exe = <<>>
              THEN /\ cfg' = [cfg EXCEPT !.connected = connected]
                   /\ result' = Raised(RaiseJLinkError)
                   /\ pc' = "ctor_failed"
              ELSE /\ cfg' = [connected |-> connected, jlink_path |-> exe,
                              jlink_params |-> ToolParams]
                   /\ result' = result
                   /\ pc' = "ctor_popen"
    /\ UNCHANGED <<ctor, defaults, args, count, op, timeout, commands, tmp, proc,
                   exitedAt, output, timer, finished, elapsed, threadExc>>

\* _test_jlinkexe: subprocess.Popen([self._jlink_path, "?"], stdout=PIPE) succeeds
Ctor_PopenOk ==
    /\ pc = "ctor_popen"
    /\ ctor' = [ctor EXCEPT !.valproc = "running"]
    /\ pc' = "ctor_wait"
    /\ UNCHANGED <<cfg, defaults, args, count, op, timeout, commands, tmp, proc,
                   exitedAt, output, timer, finished, elapsed, threadExc, result>>

\* _test_jlinkexe: Popen raises OSError; except OSError: raise JLinkError(...)
Ctor_PopenFail ==
    /\ pc = "ctor_popen"
    /\ ctor' = [ctor EXCEPT !.valproc = "failed"]
    /\ result' = Raised(RaiseJLinkError)
    /\ pc' = "ctor_failed"
    /\ UNCHANGED <<cfg, defaults, args, count, op, timeout, commands, tmp, proc,
                   exitedAt, output, timer, finished, elapsed, threadExc>>

\* the validation process exits by itself (it may also never do so)
Ctor_ProcExit ==
    /\ ctor.valproc = "running"
    /\ ctor' = [ctor EXCEPT !.valproc = "exited"]
    /\ UNCHANGED <<cfg, defaults, args, count, pc, op, timeout, commands, tmp, proc,
                   exitedAt, output, timer, finished, elapsed, threadExc, result>>

\* process.wait() returns once the validation process has exited
WaitReady(p) == p = "exited"

\* _test_jlinkexe: process.wait() returns; __init__ returns, the object exists
Ctor_WaitReturn ==
    /\ pc = "ctor_wait"
    /\ WaitReady(ctor.valproc)
    /\ pc' = "idle"
    /\ UNCHANGED <<cfg, ctor, defaults, args, count, op, timeout, commands, tmp,
                   proc, exitedAt, output, timer, finished, elapsed, threadExc,
                   result>>

NextCtor ==
    \/ Ctor_Configure \/ Ctor_PopenOk \/ Ctor_PopenFail
    \/ Ctor_ProcExit \/ Ctor_WaitReturn
    \/ Call_is_connected \/ Call_erase
    \/ Call_programFrom(HexFileLists, BinFileLists)
    \/ Call_run_commands \/ Call_run_script
    \/ MainStep(ShortOutputs) \/ CommunicateFail
    \/ WatchdogStep
    \/ ProcExit \/ Tick

\* the behaviours that start before the construction
CtorSpec == CtorInit /\ [][NextCtor]_vars

NextShort ==
    \/ Call_is_connected \/ Call_erase
    \/ Call_programFrom(HexFileLists, BinFileLists)
    \/ Call_run_commands \/ Call_run_script
    \/ MainStep(ShortOutputs) \/ CommunicateFail
    \/ WatchdogStep
    \/ ProcExit \/ Tick

\* the threads are scheduled and the clock advances; the tool process need not
\* ever exit by itself, the user need not call again and the environment need
\* not fail
FairSpec ==
    /\ Init /\ [][NextShort]_vars
    /\ WF_vars(MainStep(ShortOutputs))
    /\ WF_vars(WatchdogStep)
    /\ WF_vars(Tick)

-----------------------------------------------------------------------------
(* Properties *)

\* the call in progress (or the last one) was given a timeout
HasTimeout == timeout # NoTimeout

\* the public operation op has finished: its caller has a value or an exception
CallDone == pc = "idle" /\ result.kind # "none"

\* C1: with a timeout, a call whose tool process the watchdog killed fails
\* with an error; its caller never receives an output value.
C1_KilledCallReturnsNoOutput ==
    (HasTimeout /\ proc = "killed") => result.kind # "return"

\* C2: with a timeout, when the tool process exited by itself before the
\* timeout had elapsed, the watchdog neither runs its function nor reports a
\* timeout error, in any interleaving.
C2_NoWatchdogAfterNaturalExit ==
    (HasTimeout /\ proc = "exited" /\ exitedAt < timeout)
        => (timer \notin {"fn", "raise"} /\ threadExc = "")

\* C3: once a call that went through run_commands has finished, by return or
\* by exception, its temporary script file no longer exists.
C3_TempFileGoneAfterCall ==
    CallDone => tmp.state \notin {"open", "closed"}

\* C4: a call with a timeout always eventually completes, also when the tool
\* process never exits by itself.
C4_CallWithTimeoutCompletes ==
    (pc # "idle" /\ HasTimeout) ~> (pc = "idle")

\* C4 witness: a call completed after the watchdog killed a process that the
\* main thread was reading from.
C4_Witness ==
    CallDone /\ HasTimeout /\ proc = "killed" /\ output.assigned

\* C5: with timeout = None no watchdog exists, the process is never killed,
\* and a value is returned only after the process has exited by itself.
C5_NoTimeoutNoWatchdog ==
    (op # "none" /\ ~HasTimeout)
        => /\ timer = "none"
           /\ threadExc = ""
           /\ proc # "killed"
           /\ (output.assigned \/ result.kind = "return") => proc = "exited"

\* C5 witness: run_script(timeout=None) returned the output of an exited process.
C5_Witness ==
    /\ op = "run_script" /\ timeout = NoTimeout
    /\ CallDone /\ result.kind = "return" /\ proc = "exited"

\* C6: every exception that leaves run_script is JLinkError (the except clause
\* does not fail on a variable that was never assigned).
C6_FailureIsJLinkError ==
    result.kind = "raise" => result.exc = "JLinkError"

\* C7: program returns -1 whenever the output contains the failure marker,
\* whatever other markers it contains.
C7_FailureMarkerWins ==
    (op = "program" /\ CallDone /\ output.assigned
        /\ Contains(write_failed, output.data))
        => (result.kind = "return" /\ result.int = -1)

\* C7 witness: the failure marker together with both pass markers.
C7_Witness ==
    /\ op = "program" /\ CallDone /\ result.kind = "return" /\ result.int = -1
    /\ Contains(write_failed, output.data)
    /\ Contains(Encode(pass_messages[1]), output.data)
    /\ Contains(Encode(pass_messages[2]), output.data)

\* C8: program returns 0 exactly when the output has no failure marker and has
\* the already-programmed marker or both pass markers; otherwise it returns -1.
C8_ZeroIffSuccessMarkers ==
    (op = "program" /\ CallDone /\ output.assigned)
        => LET failed == Contains(write_failed, output.data)
               match == Contains(flash_match, output.data)
               pass1 == Contains(Encode(<<"J", "T">>), output.data)
               pass2 == Contains(Encode(<<"O", "K">>), output.data)
           IN  /\ result.int \in {-1, 0}
               /\ (result.int = 0) <=> (~failed /\ (match \/ (pass1 /\ pass2)))

\* C8 witness: only one of the two pass markers, and -1.
C8_Witness ==
    /\ op = "program" /\ CallDone /\ output.assigned /\ result.int = -1
    /\ Contains(Encode(<<"J", "T">>), output.data)
    /\ ~Contains(Encode(<<"O", "K">>), output.data)
    /\ ~Contains(write_failed, output.data)
    /\ ~Contains(flash_match, output.data)

\* C9: once the output was captured, program ends with a return value in
\* {-1, 0}; it ends with an exception only when spawning or communicating
\* failed, that is when no output was captured.
C9_FailureIsAValue ==
    (op = "program" /\ CallDone)
        => /\ output.assigned => (result.kind = "return" /\ result.int \in {-1, 0})
           /\ result.kind = "raise" => ~output.assigned

\* C9 witness: a programming failure reported as the value -1.
C9_Witness ==
    /\ op = "program" /\ CallDone /\ output.assigned
    /\ result.kind = "return" /\ result.int = -1
    /\ ~Contains(write_failed, output.data)

\* C10: is_connected runs the commands connect, q and returns TRUE exactly
\* when the marker occurs at some offset of the captured output.
C10_ConnectedIffSubstring ==
    (op = "is_connected" /\ CallDone /\ output.assigned)
        => /\ result.kind = "return"
           /\ tmp.content = <<(<<"connect">>), (<<"\n">>), (<<"q">>)>>
           /\ result.bool <=>
                \E i \in 0..Len(output.data) :
                    /\ i + Len(cfg.connected) <= Len(output.data)
                    /\ \A j \in 1..Len(cfg.connected) :
                           output.data[i + j] = Ord[cfg.connected[j]]

\* C10 witness: the marker found away from the start of the output.
C10_Witness ==
    /\ op = "is_connected" /\ CallDone /\ result.bool
    /\ ~IsConnectedStartsWith(cfg.connected, output.data)

-----------------------------------------------------------------------------
(* Properties of the script, the construction and the resources of a call *)

\* the value of a group of hexadecimal digits, upper case only
RECURSIVE HexValue(_)
HexValue(ds) ==
    IF ds = <<>> THEN 0
    ELSE 16 * HexValue(SubSeq(ds, 1, Len(ds) - 1))
         + (CHOOSE k \in 0..15 : HexDigits[k + 1] = ds[Len(ds)])

\* path p is absolute and ends with the components of the given file f
IsAbsoluteOf(p, f) ==
    /\ Len(p) >= Len(f)
    /\ p[1] = "/"
    /\ SubSeq(p, Len(p) - Len(f) + 1, Len(p)) = f

\* text t is 0x followed by exactly 8 upper-case digits that spell address a
IsAddress8(t, a) ==
    /\ Len(t) = 10
    /\ t[1] = "0" /\ t[2] = "x"
    /\ \A i \in 3..10 : \E k \in 1..16 : HexDigits[k] = t[i]
    /\ HexValue(SubSeq(t, 3, 6)) = a.hi
    /\ HexValue(SubSeq(t, 7, 10)) = a.lo

\* C11: the script file of program holds, one per line and in this order: r,
\* a loadfile line per hex file, a loadbin line per bin file with its address
\* as 0x and exactly 8 upper-case hex digits when it is below 2^32, then r, g,
\* q; nothing is reordered, dropped or duplicated.
C11_ScriptLinesInOrder ==
    (op = "program" /\ tmp.state = "closed")
        => LET h == args.hex_files
               b == args.bin_files
               c == tmp.content
               n == Len(h) + Len(b) + 4
           IN  /\ Len(c) = 2 * n - 1
               /\ \A k \in 1..(n - 1) : c[2 * k] = <<"\n">>
               /\ c[1] = <<"r">>
               /\ \A i \in 1..Len(h) :
                     LET l == c[2 * (1 + i) - 1]
                     IN  /\ Len(l) = 2
                         /\ l[1] = "loadfile"
                         /\ IsAbsoluteOf(l[2], h[i])
               /\ \A i \in 1..Len(b) :
                     LET l == c[2 * (1 + Len(h) + i) - 1]
                     IN  /\ Len(l) = 3
                         /\ l[1] = "loadbin"
                         /\ IsAbsoluteOf(l[2], b[i].file)
                         /\ b[i].addr.hi < 65536 => IsAddress8(l[3], b[i].addr)
               /\ c[2 * (n - 2) - 1] = <<"r">>
               /\ c[2 * (n - 1) - 1] = <<"g">>
               /\ c[2 * n - 1] = <<"q">>

\* C11 witness: a script for two hex files and two bin files, one at 2^32 - 1.
C11_Witness ==
    /\ op = "program" /\ tmp.state = "closed" /\ proc = "running"
    /\ Len(args.hex_files) = 2 /\ Len(args.bin_files) = 2
    /\ args.bin_files[1].addr = [hi |-> 65535, lo |-> 65535]

\* C12: erase runs r, erase, r, q with the default timeout and, when the run
\* completes, returns the same empty result whatever the tool printed.
C12_EraseNotClassified ==
    /\ (op = "erase" /\ pc # "idle")
           => /\ timeout = DefaultTimeout
              /\ commands = <<(<<"r">>), (<<"erase">>), (<<"r">>), (<<"q">>)>>
    /\ (op = "erase" /\ CallDone /\ output.assigned)
           => /\ tmp.content = <<(<<"r">>), (<<"\n">>), (<<"erase">>), (<<"\n">>),
                                 (<<"r">>), (<<"\n">>), (<<"q">>)>>
              /\ result = [kind |-> "return", exc |-> "", bytes |-> <<>>,
                           int |-> 0, bool |-> FALSE]

\* C12 witness: an erase whose output holds the write-failed marker returned
\* the empty result.
C12_Witness ==
    /\ op = "erase" /\ CallDone /\ result.kind = "return"
    /\ Contains(write_failed, output.data)

\* C13: no step changes the configuration or the default argument lists of
\* program, and every call starts from fresh locals, whatever the earlier
\* calls were and however they ended.
C13_NothingKeptBetweenCalls ==
    [][/\ cfg' = cfg
       /\ defaults' = defaults
       /\ (pc = "idle" /\ pc' # "idle")
              => /\ output' = Unassigned
                 /\ result' = NoResult
                 /\ tmp' = NoFile
                 /\ proc' = "none"
                 /\ timer' = "none" /\ ~finished' /\ elapsed' = 0
                 /\ count' = NoCount]_vars

\* C13 witness: after a program call with empty lists that ended with an
\* exception, configuration and default lists are as constructed.
C13_Witness ==
    /\ op = "program" /\ CallDone /\ result.kind = "raise"
    /\ args = [hex_files |-> <<>>, bin_files |-> <<>>]
    /\ cfg.connected \in Markers
    /\ defaults = [hex_files |-> <<>>, bin_files |-> <<>>]

\* C14: a construction without an executable name on a system other than
\* Linux or Windows fails with the engine's own error (JLinkError, "Unsupported
\* system") before any process is started; with an executable name given the
\* system is not looked at and that failure cannot occur.
C14_UnsupportedSystemError ==
    /\ (pc = "ctor_failed" /\ ctor.valproc = "none")
           => /\ ctor.jlink_exe = <<>>
              /\ ctor.system \notin {"Linux", "Windows"}
              /\ proc = "none"
              /\ result = Raised("JLinkError")
    /\ (ctor.jlink_exe = <<>> /\ ctor.system \notin {"Linux", "Windows"})
           => (ctor.valproc = "none" /\ pc \in {"ctor_config", "ctor_failed"})

\* C15: when the validation launch cannot be spawned the construction fails
\* with the engine's own error (JLinkError naming the path) and no call can
\* start; when the construction succeeded the validation process has exited
\* before any call starts.
C15_ValidationLaunch ==
    /\ ctor.valproc = "failed"
           => (pc = "ctor_failed" /\ op = "none" /\ result = Raised("JLinkError"))
    /\ (pc \notin {"ctor_config", "ctor_popen", "ctor_wait", "ctor_failed"})
           => ctor.valproc = "exited"
    /\ op # "none" => ctor.valproc = "exited"

\* the public operations that go through run_commands
UsesScript == op \in {"is_connected", "erase", "program", "run_commands"}

\* C16: in a run_commands call the script file is completely written and
\* closed before the tool process is started, and it exists as long as that
\* process runs.
C16_ScriptReadyBeforeSpawn ==
    (UsesScript /\ (pc = "rs_popen" \/ proc = "running"))
        => /\ tmp.state = "closed"
           /\ Len(tmp.content) = 2 * Len(commands) - 1
           /\ \A k \in 1..Len(commands) : tmp.content[2 * k - 1] = commands[k]

\* C16 witness: the process of a program call runs, some time after its
\* start, with the script closed.
C16_Witness ==
    /\ op = "program" /\ proc = "running" /\ elapsed > 0
    /\ tmp.state = "closed" /\ Len(tmp.content) > 1

\* C17: the marker checks of is_connected and program run only after the tool
\* process has ended (by itself or killed) and its output was read to the end.
C17_ClassifyAfterProcessEnded ==
    (\/ pc \in {"ic_classify", "pg_classify"}
     \/ (op \in {"is_connected", "program"} /\ result.kind = "return"))
        => (proc \in {"exited", "killed"} /\ output.assigned)

\* C17 witness: program is about to classify the output of a killed process.
C17_Witness ==
    pc = "pg_classify" /\ proc = "killed" /\ output.assigned

\* C18 as stated: every finished call of is_connected, erase or program has
\* created exactly one script file and spawned exactly one tool process.
C18_ExactlyOneProcess ==
    (op \in {"is_connected", "erase", "program"} /\ CallDone)
        => /\ count.files = 1
           /\ count.popen = 1
           /\ proc \in {"running", "exited", "killed"}

\* C18 amended: a call of is_connected, erase or program creates exactly one
\* script file and calls Popen exactly once, so it has at most one tool
\* process (none when Popen raises); no second file or Popen call follows,
\* however the call ends.
C18_OneFileOneProcess ==
    op \in {"is_connected", "erase", "program"}
        => /\ count.files <= 1
           /\ count.popen <= 1
           /\ proc # "none" => count.popen = 1
           /\ CallDone => (count.files = 1 /\ count.popen = 1)

\* C18 witness: a program call that ended with -1 used one file, one process.
C18_Witness ==
    /\ op = "program" /\ CallDone /\ result.kind = "return" /\ result.int = -1
    /\ count.files = 1 /\ count.popen = 1 /\ proc \in {"exited", "killed"}

\* C19: once a call with a timeout has finished, no watchdog of that call can
\* still fire: the timer thread has ended or was cancelled.
C19_NoWatchdogLeftAfterCall ==
    (CallDone /\ HasTimeout)
        => (timer \in {"none", "dead"} \/ (timer = "waiting" /\ finished))

\* C20: the process is killed only by the watchdog, only after the timeout has
\* elapsed since timer.start(), and p.kill() is called at most once per call.
C20_KillOnlyAfterTimeout ==
    /\ count.kills <= 1
    /\ (count.kills > 0 \/ timer \in {"fn", "raise"})
           => (HasTimeout /\ elapsed >= timeout)
    /\ proc = "killed"
           => (HasTimeout /\ elapsed >= timeout /\ count.kills = 1
               /\ timer \in {"raise", "dead"})

\* C20 witness: a process killed by the one kill of its call.
C20_Witness ==
    proc = "killed" /\ count.kills = 1 /\ elapsed = timeout /\ pc = "rs_communicate"

====
